---- MODULE Spec2Model ----
(***************************************************************************)
(* Model of the text-to-speech application's playback code:                *)
(*   - textUtils.sanitizeText / chunkText (pure functions),                *)
(*   - services/speechService.js (module-level queue of utterances, the    *)
(*     callback registry, speak / pause / resume / stop / previewVoice),   *)
(*   - hooks/useSpeechSynthesis.js (isPlaying / isPaused / charIndex),     *)
(*   - window.speechSynthesis, the engine both of them drive, modelled by  *)
(*     the Web Speech API's documented behaviour: a queue of utterances,   *)
(*     a paused flag that cancel() does not clear, and asynchronous events *)
(*     that may still arrive for an utterance after it was cancelled.      *)
(*                                                                         *)
(* Strings are sequences of one-character strings; JavaScript's 0-based    *)
(* indices are kept in the names that carry them (breakPoint, lastSpace)   *)
(* and converted where a TLA+ sequence is indexed.                         *)
(***************************************************************************)
EXTENDS Integers, Sequences, FiniteSets, TLC

----------------------------------------------------------------------------
(* JavaScript string primitives used by textUtils.js *)

\* \s of a JavaScript regular expression, and the characters trim() strips
IsWs(c) == c \in {" ", "\n", "\t"}

Min(a, b) == IF a < b THEN a ELSE b

Max(a, b) == IF a > b THEN a ELSE b

\* String.prototype.substring(a, b): arguments clamped to [0, length], swapped
\* when a > b; 0-based, b exclusive
Substring(t, a, b) ==
  LET ca == Min(Max(a, 0), Len(t))
      cb == Min(Max(b, 0), Len(t))
      lo == Min(ca, cb)
      hi == Max(ca, cb)
  IN  SubSeq(t, lo + 1, hi)

\* String.prototype.substring(a): to the end of the string
SubstringFrom(t, a) == Substring(t, a, Len(t))

\* String.prototype.trim(). (The string v and the set nonWs are bound by
\* CHOOSE so that each is evaluated once.)
Trim(t) ==
  CHOOSE r \in
    {IF \A i \in 1..Len(v) : IsWs(v[i]) THEN <<>>
     ELSE CHOOSE q \in
            {SubSeq(v, CHOOSE i \in nonWs : \A j \in nonWs : i <= j,
                       CHOOSE i \in nonWs : \A j \in nonWs : i >= j)
               : nonWs \in {{i \in 1..Len(v) : ~IsWs(v[i])}}} : TRUE
       : v \in {t}} : TRUE

\* TRUE iff m occurs in t at 0-based position p
OccursAt(t, m, p) ==
  /\ p >= 0
  /\ p + Len(m) <= Len(t)
  /\ \A k \in 1..Len(m) : t[p + k] = m[k]

\* String.prototype.indexOf(m, from): first 0-based position >= from, or -1
IndexOf(t, m, from) ==
  LET hits == {p \in Max(from, 0)..Len(t) : OccursAt(t, m, p)}
  IN  IF hits = {} THEN -1 ELSE CHOOSE p \in hits : \A q \in hits : p <= q

\* String.prototype.lastIndexOf(m): last 0-based position, or -1
LastIndexOf(t, m) ==
  LET hits == {p \in 0..Len(t) : OccursAt(t, m, p)}
  IN  IF hits = {} THEN -1 ELSE CHOOSE p \in hits : \A q \in hits : p >= q

----------------------------------------------------------------------------
(* textUtils.js *)

\* The end (0-based, exclusive) of the match of /\n\s*\n/ that starts at the
\* newline at 0-based position p, or -1: \s* is greedy, so the match runs to
\* the last newline of the whitespace run that follows position p.
BlankRunEnd(t, p) ==
  LET ends == {e \in (p + 2)..Len(t) :
                 /\ t[e] = "\n"
                 /\ \A k \in (p + 2)..e : IsWs(t[k])}
  IN  IF p + 1 > Len(t) \/ t[p + 1] # "\n" \/ ends = {} THEN -1
      ELSE CHOOSE e \in ends : \A f \in ends : e >= f

RECURSIVE ReplaceBlankRuns(_, _)
\* text.replace(/\n\s*\n/g, '\n\n') from 0-based position p on: the text up to
\* the next match is copied, the match is replaced, the scan goes on after it
ReplaceBlankRuns(t, p) ==
  LET matches == {q \in p..(Len(t) - 1) : BlankRunEnd(t, q) # -1}
  IN  IF matches = {} THEN SubSeq(t, p + 1, Len(t))
      ELSE LET q == CHOOSE m \in matches : \A n \in matches : m <= n
           IN  SubSeq(t, p + 1, q) \o <<"\n", "\n">>
                 \o ReplaceBlankRuns(t, BlankRunEnd(t, q))

\* text.replace(/\n\s*\n/g, '\n\n').trim()
sanitizeText(text) == Trim(ReplaceBlankRuns(text, 0))

SentenceMarks == {".", "?", "!"}

Quotes == {"\"", "'"}

\* window.match(/[\.\?\!]\s+["']?$/): the 0-based index of the match, or -1.
\* The pattern is anchored at the end of the window: a sentence mark, then one
\* or more whitespace characters, then at most one quote, then the end.
SentenceEndMatch(w) ==
  LET starts == {i \in 0..(Len(w) - 2) :
                   /\ w[i + 1] \in SentenceMarks
                   /\ \E e \in {Len(w), Len(w) - 1} :
                        /\ e >= i + 2
                        /\ \A k \in (i + 2)..e : IsWs(w[k])
                        /\ e = Len(w) \/ w[Len(w)] \in Quotes}
  IN  IF starts = {} THEN -1 ELSE CHOOSE i \in starts : \A j \in starts : i <= j

\* a break point that, for a sentence end, is where the match starts and not
\* where it ends
AfterWindow_BreaksBeforeMark(currentText, window, maxChunkLength) ==
  LET sIdx == SentenceEndMatch(window)
      sMatch == SubstringFrom(window, sIdx)
      afterSentence ==
        IF sIdx # -1 THEN IndexOf(currentText, sMatch, sIdx) ELSE -1
      pIdx == IndexOf(window, <<"\n", "\n">>, 0)
      afterParagraph ==
        IF afterSentence = -1 /\ pIdx # -1
          THEN IndexOf(currentText, <<"\n", "\n">>, pIdx) + 2
          ELSE afterSentence
      lastSpace == LastIndexOf(window, <<" ">>)
  IN  IF afterParagraph = -1 \/ afterParagraph > maxChunkLength
        THEN IF lastSpace # -1 /\ lastSpace * 10 > maxChunkLength * 8
               THEN lastSpace
               ELSE maxChunkLength
        ELSE afterParagraph

\* The break point of one iteration of chunkText's loop (lines 68-93), given
\* window = currentText.substring(0, maxChunkLength)
AfterWindow(currentText, window, maxChunkLength) ==
  LET sIdx == SentenceEndMatch(window)
      sMatch == SubstringFrom(window, sIdx)
      afterSentence ==
        IF sIdx # -1 THEN IndexOf(currentText, sMatch, sIdx) + Len(sMatch) ELSE -1
      pIdx == IndexOf(window, <<"\n", "\n">>, 0)
      afterParagraph ==
        IF afterSentence = -1 /\ pIdx # -1
          THEN IndexOf(currentText, <<"\n", "\n">>, pIdx) + 2
          ELSE afterSentence
      lastSpace == LastIndexOf(window, <<" ">>)
  IN  IF afterParagraph = -1 \/ afterParagraph > maxChunkLength
        THEN IF lastSpace # -1 /\ lastSpace * 10 > maxChunkLength * 8
               THEN lastSpace
               ELSE maxChunkLength
        ELSE afterParagraph

\* breakPoint computed from a window one character too long
BreakPoint_WideWindow(currentText, maxChunkLength) ==
  CHOOSE bp \in
    {AfterWindow(currentText, window, maxChunkLength + 1)
       : window \in {Substring(currentText, 0, maxChunkLength + 1)}} : TRUE

\* breakPoint, with currentText.substring(0, maxChunkLength) evaluated once
BreakPoint(currentText, maxChunkLength) ==
  CHOOSE bp \in
    {AfterWindow(currentText, window, maxChunkLength)
       : window \in {Substring(currentText, 0, maxChunkLength)}} : TRUE

RECURSIVE ChunkLoop(_, _, _)
\* chunkText's while loop (lines 62-97): chunks collected so far, text left
ChunkLoop(currentText, chunks, maxChunkLength) ==
  IF Len(currentText) = 0 THEN chunks
  ELSE IF Len(currentText) <= maxChunkLength THEN Append(chunks, currentText)
  ELSE CHOOSE r \in
         {ChunkLoop(rest, Append(chunks, chunk), maxChunkLength)
            : <<chunk, rest>> \in
                {<<Trim(Substring(currentText, 0, breakPoint)),
                   Trim(SubstringFrom(currentText, breakPoint))>>
                   : breakPoint \in {BreakPoint(currentText, maxChunkLength)}}} : TRUE

\* a filter that also drops the chunks of one character
DropEmpty_DropsShort(chunks) == SelectSeq(chunks, LAMBDA chunk : Len(chunk) > 1)

RECURSIVE LoopEnds(_, _)
\* TRUE iff chunkText's while loop (lines 62-97), entered with currentText,
\* comes to an end. An iteration replaces currentText by a trimmed suffix of
\* it; one that leaves currentText as it was is followed by the same
\* iteration for ever.
LoopEnds(currentText, maxChunkLength) ==
  IF Len(currentText) = 0 \/ Len(currentText) <= maxChunkLength THEN TRUE
  ELSE CHOOSE r \in
         {IF rest = currentText THEN FALSE ELSE LoopEnds(rest, maxChunkLength)
            : rest \in {Trim(SubstringFrom(currentText,
                                           BreakPoint(currentText, maxChunkLength)))}} : TRUE

\* Array.prototype.filter(chunk => chunk.length > 0)
DropEmpty(chunks) == SelectSeq(chunks, LAMBDA chunk : Len(chunk) > 0)

\* chunkText without the early return for a text that fits in one chunk
chunkText_AlwaysLoops(text, maxChunkLength) ==
  IF Len(text) = 0 THEN <<>>
  ELSE DropEmpty(ChunkLoop(sanitizeText(text), <<>>, maxChunkLength))

\* TRUE iff the call chunkText(text, maxChunkLength) returns
Returns(text, maxChunkLength) ==
  \/ Len(text) = 0
  \/ CHOOSE r \in
       {Len(sanitizedText) <= maxChunkLength \/ LoopEnds(sanitizedText, maxChunkLength)
          : sanitizedText \in {sanitizeText(text)}} : TRUE

\* chunkText(text, maxChunkLength), sanitizeText(text) evaluated once
chunkText(text, maxChunkLength) ==
  IF Len(text) = 0 THEN <<>>
  ELSE CHOOSE r \in
         {IF Len(sanitizedText) <= maxChunkLength THEN <<sanitizedText>>
          ELSE DropEmpty(ChunkLoop(sanitizedText, <<>>, maxChunkLength))
            : sanitizedText \in {sanitizeText(text)}} : TRUE

----------------------------------------------------------------------------
(* App and ProgressBar.jsx: the progress shown *)

\* A JavaScript number that is a ratio of two integers, den > 0
Ratio(num, den) == [num |-> num, den |-> den]

\* textUtils.js: countCharacters(text)
countCharacters(text) == IF Len(text) = 0 THEN 0 ELSE Len(text)

\* App: totalTextLength > 0 ? (charIndex / totalTextLength) * 100 : 0
progress(index, totalTextLength) ==
  IF totalTextLength > 0 THEN Ratio(index * 100, totalTextLength) ELSE Ratio(0, 1)

\* Math.min(100, x)
MathMin100(x) == IF x.num > 100 * x.den THEN Ratio(100, 1) ELSE x

\* Math.max(0, x)
MathMax0(x) == IF x.num < 0 THEN Ratio(0, 1) ELSE x

\* x.toFixed(0) for x >= 0: the nearest integer, the larger one of two
ToFixed0(x) == (2 * x.num + x.den) \div (2 * x.den)

\* ProgressBar without the upper limit
ProgressBar_Unclamped(p) ==
  LET clampedProgress == MathMax0(p)
  IN  [rendered |-> TRUE, width |-> clampedProgress, label |-> ToFixed0(clampedProgress)]

\* ProgressBar({progress}): the width of the bar and the percentage printed
ProgressBar(p) ==
  LET clampedProgress == MathMax0(MathMin100(p))
  IN  [rendered |-> TRUE, width |-> clampedProgress, label |-> ToFixed0(clampedProgress)]

----------------------------------------------------------------------------
(* Bounds and inputs *)

\* calls of speak, pause, resume, stop and previewVoice per run, the calls of
\* speak that a consumer's callback makes included, while the history is kept
MaxCalls == 2

\* the same, in the runs that keep no history
MaxCallsDeep == 3

\* calls of the hook's speak, pause, resume and stop per run
MaxCallsHook == 3

\* calls of setCallbacks per run
MaxRegistrations == 1

\* calls of speak, pause, resume, stop and previewVoice, and calls of
\* setCallbacks, in the runs that register callbacks more than once
MaxCallsRegistry == 2

MaxRegistrationsRegistry == 2

\* the longest text, and the largest maxChunkLength, given to chunkText in the
\* runs that call it alone
MaxTextLength == 7

MaxChunkLength == 6

\* the length of the texts of words and spaces given to chunkText with a
\* maxChunkLength large enough for a space inside the last fifth of the window
MaxWordTextLength == 12

\* how far below 0 the maxChunkLength goes, and the longest text, given to
\* chunkText in the runs that call it with a maxChunkLength <= 0
MaxNegativeLength == 1

MaxInvalidTextLength == 4

\* 'voiceschanged' events waiting to be delivered at one time
MaxVoicesChanged == 2

\* boundary events the engine delivers per utterance
MaxBoundary == 1

\* the charIndex values a render of the progress bar is given
MaxCharIndex == 12

\* the length of the textToSpeak a render of the progress bar is given
MaxTotalTextLength == 8

\* speechService.speak: chunkText(text, 200)
ChunkLength == 200

\* Rep(c, n): the character c, n times
Rep(c, n) == [i \in 1..n |-> c]

\* The texts a consumer speaks: the empty text, a one-sentence text, and a
\* text of 205 characters that chunkText(., 200) splits in two.
TextOf ==
  [T0 |-> <<>>,
   T1 |-> <<"H", "i", ".">>,
   T2 |-> Rep("a", 197) \o <<".", " ">> \o Rep("b", 6)]

TextIds == DOMAIN TextOf

\* chunkText(text, 200) of every text, computed once
ChunkTable == [t \in TextIds |-> chunkText(TextOf[t], ChunkLength)]

\* utils/constants.js: the allowed ranges of rate, pitch and volume, in tenths
MIN_SPEECH_RATE == 5

MAX_SPEECH_RATE == 20

MIN_SPEECH_PITCH == 0

MAX_SPEECH_PITCH == 20

MIN_SPEECH_VOLUME == 0

MAX_SPEECH_VOLUME == 10

\* The options objects {voice, rate, pitch, volume} a consumer passes, by
\* number; rate, pitch and volume in tenths. The third has a rate of 3.0.
OptionsOf ==
  <<[rate |-> 10, pitch |-> 10, volume |-> 10],
    [rate |-> 15, pitch |-> 8, volume |-> 5],
    [rate |-> 30, pitch |-> 10, volume |-> 10]>>

OptionIds == DOMAIN OptionsOf

\* The arguments of the speak(text, options) calls a consumer makes
SpeakInputs ==
  {[text |-> "T0", opts |-> 1], [text |-> "T1", opts |-> 1], [text |-> "T2", opts |-> 2],
   [text |-> "T1", opts |-> 3]}

\* The arguments of speak in a run of the given kind: the two-chunk text only
\* in the runs that register callbacks more than once
SpeakChoices(r) ==
  IF r = "registry" THEN {[text |-> "T2", opts |-> 2]} ELSE SpeakInputs

\* The options of the previewVoice(options) calls a consumer makes
PreviewInputs == {1}

\* The texts the application passes to the hook's speak(text)
HookTexts == {"T1", "T2"}

\* event.charIndex of a boundary event
CharIndexes == {2, 150}

\* An unset callback (null or undefined in the source)
Null == "null"

CallbackNames == {"onStart", "onEnd", "onPause", "onResume", "onBoundary", "onError"}

\* A registered callback either only takes note of the event ("observe") or
\* also calls speechService.speak(ReArg.text, ReArg.opts) from inside
\* ("respeak")
ReArg == [text |-> "T2", opts |-> 2]

\* The callback objects a consumer registers: every field an observer, or the
\* same with an onEnd, respectively an onError, that calls speak()
Registrations ==
  {[n \in CallbackNames |-> "observe"],
   [n \in CallbackNames |-> IF n = "onEnd" THEN "respeak" ELSE "observe"],
   [n \in CallbackNames |-> IF n = "onError" THEN "respeak" ELSE "observe"]}

\* utils/constants.js: PREVIEW_VOICE_TEXT = "Hello, this is a voice preview."
PREVIEW_VOICE_TEXT ==
  <<"H", "e", "l", "l", "o", ",", " ", "t", "h", "i", "s", " ", "i", "s",
    " ", "a", " ", "v", "o", "i", "c", "e", " ", "p", "r", "e", "v", "i",
    "e", "w", ".">>

\* A callback object with some fields omitted: only onEnd and onError are
\* given, and they are other functions than those of Registrations
PartialRegistration ==
  [n \in CallbackNames |-> IF n \in {"onEnd", "onError"} THEN "note" ELSE Null]

\* The callback objects registered in a run of the given kind
RegistrationChoices(r) ==
  IF r = "registry"
    THEN {[n \in CallbackNames |-> "observe"], PartialRegistration}
    ELSE Registrations

\* "no utterance": null in the source
NoU == [kind |-> "none", sess |-> 0, idx |-> 0, text |-> "none", opts |-> 0]

\* What the engine still delivers for an utterance it was told to cancel
TrailKinds == {"none", "start", "boundary", "end", "error", "pause", "resume"}

----------------------------------------------------------------------------
(* State *)

VARIABLES
  utteranceQueue,   \* speechService.js: let utteranceQueue
  currentUtterance, \* speechService.js: let currentUtterance
  callbacks,        \* speechService.js: the six on...Callback variables
  synthQueue,       \* window.speechSynthesis: utterances submitted, head first
  synthPhase,       \* the head utterance: "idle" (none), "pending", "begun", "started"
  synthBoundaries,  \* boundary events delivered for the head utterance
  synthPaused,      \* window.speechSynthesis.paused
  inbox,            \* events the engine has still to deliver: pause, resume,
                    \* and the trailing event of a cancelled utterance
  isPlaying,        \* useSpeechSynthesis: isPlaying
  isPaused,         \* useSpeechSynthesis: isPaused
  charIndex,        \* useSpeechSynthesis: charIndex
  lastCall,         \* history: the latest API call, its argument, the status it found
  calls,            \* history: number of calls of speak, pause, resume, stop, previewVoice
  registrations,    \* history: number of calls of setCallbacks
  gen,              \* history: the call number of the latest speak()
  trace,            \* history: calls, submissions, events and callbacks in order
  synthSupported,   \* window.speechSynthesis exists (it is undefined otherwise)
  thrown,           \* the latest call ended with an uncaught TypeError
  chunkIn,          \* textUtils.chunkText: the arguments of the call under study
  chunkOut,         \* textUtils.chunkText: whether it has returned, and what
  synthVoices,      \* window.speechSynthesis.getVoices()
  voicesChangedEvents, \* 'voiceschanged' events the engine has still to deliver
  voices,           \* useSpeechSynthesis: voices
  selectedVoice,    \* useSpeechSynthesis: selectedVoice
  voicesChangedListener, \* the populateVoiceList registered for 'voiceschanged'
  effectPending,    \* useSpeechSynthesis: the effect's dependencies have changed
  progressIn,       \* App: the charIndex and the textToSpeak of the render under study
  progressOut,      \* ProgressBar: what it shows, once rendered
  run               \* which run this is: "traced" drives speechService and keeps
                    \* the history, "deep" drives speechService, "hook" the hook,
                    \* "registry" speechService with repeated registrations,
                    \* "chunk" calls textUtils.chunkText alone,
                    \* "progress" renders the progress bar alone,
                    \* "voices" follows the hook's list of voices
                    \* (the "hook" runs of HookVoiceSpec also change the
                    \* selected voice while the hook speaks)

vars == <<utteranceQueue, currentUtterance, callbacks, synthQueue, synthPhase,
          synthBoundaries, synthPaused, inbox, isPlaying, isPaused, charIndex,
          lastCall, calls, registrations, gen, trace, synthSupported, thrown, chunkIn,
          chunkOut, synthVoices, voicesChangedEvents, voices, selectedVoice,
          voicesChangedListener, effectPending, progressIn, progressOut, run>>

\* The variables of the progress bar
progressVars == <<progressIn, progressOut>>

\* The variables of the hook's list of voices
voiceVars == <<synthVoices, voicesChangedEvents, voices, selectedVoice,
               voicesChangedListener, effectPending>>

\* The state as one record, so that a handler is a function from state to state
State ==
  [uq |-> utteranceQueue, cur |-> currentUtterance, cbs |-> callbacks,
   eq |-> synthQueue, phase |-> synthPhase, bnd |-> synthBoundaries,
   paused |-> synthPaused, inbox |-> inbox, isPlaying |-> isPlaying,
   isPaused |-> isPaused, charIndex |-> charIndex, lastCall |-> lastCall,
   calls |-> calls,
   regs |-> registrations, gen |-> gen, trace |-> trace,
   supported |-> synthSupported, thrown |-> thrown, run |-> run]

Commit(s) ==
  /\ utteranceQueue' = s.uq
  /\ currentUtterance' = s.cur
  /\ callbacks' = s.cbs
  /\ synthQueue' = s.eq
  /\ synthPhase' = s.phase
  /\ synthBoundaries' = s.bnd
  /\ synthPaused' = s.paused
  /\ inbox' = s.inbox
  /\ isPlaying' = s.isPlaying
  /\ isPaused' = s.isPaused
  /\ charIndex' = s.charIndex
  /\ lastCall' = s.lastCall
  /\ calls' = s.calls
  /\ registrations' = s.regs
  /\ gen' = s.gen
  /\ trace' = s.trace
  /\ synthSupported' = s.supported
  /\ thrown' = s.thrown
  /\ run' = s.run
  /\ UNCHANGED <<chunkIn, chunkOut>>
  /\ UNCHANGED voiceVars
  /\ UNCHANGED progressVars

\* The status of speechService's session: Idle when nothing is queued or in
\* flight, else Paused or Playing by the engine's paused flag
ServiceStatus(s) ==
  IF s.eq = <<>> /\ s.uq = <<>> THEN "Idle"
  ELSE IF s.paused THEN "Paused"
  ELSE "Playing"

\* The status the hook reports (App: isPlaying ? (isPaused ? 'Paused' : 'Playing...') : ...)
HookStatus(s) ==
  IF ~s.isPlaying THEN "Idle"
  ELSE IF s.isPaused THEN "Paused"
  ELSE "Playing"

StatusOf(s) == IF s.run = "hook" THEN HookStatus(s) ELSE ServiceStatus(s)

\* One entry of the history: k is "call", "submit", "event" or "cb"; n the name
\* of the call, event or callback; u the utterance concerned; x the charIndex
\* of a boundary event, or the callback object given to setCallbacks; g the
\* latest speak(), st the status and cbs the registered callbacks at that moment
Entry(s, k, n, u, x) ==
  [k |-> k, n |-> n, u |-> u, x |-> x, g |-> s.gen, st |-> StatusOf(s), cbs |-> s.cbs]

\* The history is kept in full in the "traced" runs; the "registry" runs keep
\* the setCallbacks calls and the callback invocations only
Log(s, k, n, u, x) ==
  IF s.run = "traced" \/ (s.run = "registry" /\ (k = "cb" \/ n = "setCallbacks"))
    THEN [s EXCEPT !.trace = Append(@, Entry(s, k, n, u, x))]
    ELSE s

\* The number of calls a run may make
CallLimit(s) ==
  CASE s.run = "traced" -> MaxCalls
    [] s.run = "deep" -> MaxCallsDeep
    [] s.run = "hook" -> MaxCallsHook
    [] s.run = "registry" -> MaxCallsRegistry

\* The number of setCallbacks calls a run may make
RegistrationLimit(s) ==
  IF s.run = "registry" THEN MaxRegistrationsRegistry ELSE MaxRegistrations

\* The arguments of the call that state s is about to make, for the history
CallArg(s, text, opts) ==
  [kind |-> "arg", sess |-> s.calls + 1, idx |-> 0, text |-> text, opts |-> opts]

\* An API call is made: counted and recorded
Called(s, n, u) ==
  Log([s EXCEPT !.calls = @ + 1, !.thrown = FALSE,
                !.lastCall = [n |-> n, u |-> u, st |-> StatusOf(s)]],
      "call", n, u, 0)

\* The characters of the texts given to chunkText alone: a letter, the two
\* kinds of whitespace the regular expressions tell apart, a sentence mark
Alphabet == {"a", " ", "\n", "."}

Texts == UNION {[1..n -> Alphabet] : n \in 0..MaxTextLength}

\* chunkText's arguments in the runs that do not study it
NoChunkInput == [text |-> <<>>, max |-> ChunkLength]

NotReturned == [done |-> FALSE, chunks |-> <<>>]

\* The charIndex and the textToSpeak of a render: any position the engine may
\* have reported, and any text the user may have typed meanwhile
ProgressInputs ==
  [charIndex : 0..MaxCharIndex,
   textToSpeak : UNION {[1..n -> {"a"}] : n \in 0..MaxTotalTextLength}]

\* The render in the runs that do not study the progress bar
NoProgressInput == [charIndex |-> 0, textToSpeak |-> <<>>]

\* The progress bar has not been rendered
NotRendered == [rendered |-> FALSE, width |-> [num |-> 0, den |-> 1], label |-> 0]

\* chunkText was called and its loop never ends
Looping == [done |-> FALSE, chunks |-> <<>>, looping |-> TRUE]

\* Texts of words and spaces, and the maxChunkLength values used with them
WordTexts == [1..MaxWordTextLength -> {"a", " "}]

WordChunkLengths == (MaxWordTextLength - 2)..(MaxWordTextLength - 1)

ChunkInputs ==
  [text : Texts, max : 1..MaxChunkLength] \cup [text : WordTexts, max : WordChunkLengths]

InvalidChunkInputs ==
  [text : UNION {[1..n -> Alphabet] : n \in 0..MaxInvalidTextLength},
   max : (-MaxNegativeLength)..0]

\* No SpeechSynthesisVoice: null, or undefined
NoVoice == [name |-> "none", lang |-> "none", default |-> FALSE]

\* The voices an engine may offer (name, lang, default of SpeechSynthesisVoice)
Voices ==
  {[name |-> "Anna", lang |-> "de-DE", default |-> TRUE],
   [name |-> "Samantha", lang |-> "en-US", default |-> FALSE],
   [name |-> "Thomas", lang |-> "fr-FR", default |-> FALSE]}

\* The lists getVoices() may return once the voices are loaded
VoiceLists ==
  {l \in UNION {[1..n -> Voices] : n \in 1..Cardinality(Voices)} :
     \A i, j \in DOMAIN l : l[i] = l[j] => i = j}

\* No listener for 'voiceschanged'; a listener is the populateVoiceList of one
\* render, which has captured that render's selectedVoice
NoListener == [on |-> FALSE, selectedVoice |-> NoVoice]

\* The state once the modules are loaded and the hook has been rendered
Constructed ==
  /\ utteranceQueue = <<>>
  /\ currentUtterance = NoU
  /\ callbacks = [n \in CallbackNames |-> Null]
  /\ synthQueue = <<>>
  /\ synthPhase = "idle"
  /\ synthBoundaries = 0
  /\ synthPaused = FALSE
  /\ inbox = {}
  /\ isPlaying = FALSE
  /\ isPaused = FALSE
  /\ charIndex = 0
  /\ lastCall = [n |-> "none", u |-> NoU, st |-> "Idle"]
  /\ calls = 0
  /\ registrations = 0
  /\ gen = 0
  /\ trace = <<>>
  /\ thrown = FALSE
  /\ chunkOut = NotReturned
  /\ synthVoices = <<>>
  /\ voicesChangedEvents = 0
  /\ voices = <<>>
  /\ selectedVoice = NoVoice
  /\ voicesChangedListener = NoListener
  /\ effectPending = TRUE
  /\ progressOut = NotRendered

\* speechService in a browser with or without window.speechSynthesis
Init ==
  /\ Constructed /\ run = "traced" /\ synthSupported \in BOOLEAN
  /\ chunkIn = NoChunkInput /\ progressIn = NoProgressInput

DeepInit ==
  /\ Constructed /\ run = "deep" /\ synthSupported = TRUE
  /\ chunkIn = NoChunkInput /\ progressIn = NoProgressInput

HookInit ==
  /\ Constructed /\ run = "hook" /\ synthSupported = TRUE
  /\ chunkIn = NoChunkInput /\ progressIn = NoProgressInput

RegistryInit ==
  /\ Constructed /\ run = "registry" /\ synthSupported = TRUE
  /\ chunkIn = NoChunkInput /\ progressIn = NoProgressInput

\* textUtils.js alone: a text and a maxChunkLength >= 1, chunkText not yet called
ChunkInit ==
  /\ Constructed
  /\ run = "chunk"
  /\ synthSupported = TRUE
  /\ chunkIn \in ChunkInputs
  /\ progressIn = NoProgressInput

\* textUtils.js alone: a text and a maxChunkLength <= 0
InvalidChunkInit ==
  /\ Constructed
  /\ run = "chunk"
  /\ synthSupported = TRUE
  /\ chunkIn \in InvalidChunkInputs
  /\ progressIn = NoProgressInput

\* The hook is rendered for the first time, its effect has not run yet, and
\* the engine has not loaded its voices yet
VoiceInit ==
  /\ Constructed
  /\ run = "voices"
  /\ synthSupported = TRUE
  /\ chunkIn = NoChunkInput
  /\ progressIn = NoProgressInput

----------------------------------------------------------------------------
(* window.speechSynthesis *)

\* synth.speaking: an utterance has begun being spoken and has not completed
SynthSpeaking(s) == s.eq # <<>> /\ s.phase \in {"begun", "started"}

\* synth.speak(u): u joins the queue; it is spoken at once when the engine is
\* not paused and nothing is queued before it
SynthSpeak(s, u) ==
  LET s1 == IF s.eq = <<>>
              THEN [s EXCEPT !.eq = <<u>>,
                             !.phase = IF s.paused THEN "pending" ELSE "begun",
                             !.bnd = 0]
              ELSE [s EXCEPT !.eq = Append(@, u)]
  IN  Log(s1, "submit", "speak", u, 0)

\* The events the engine may still deliver for the head utterance when it is
\* cancelled: none, or the one event that was next or already under way
TrailChoices(s) ==
  IF s.eq = <<>> THEN {"none"}
  ELSE {"none", "end", "error"}
       \cup (IF s.phase = "begun" THEN {"start"} ELSE {})
       \cup (IF s.phase = "started" THEN {"boundary"} ELSE {})
       \cup {e.ev : e \in {f \in s.inbox : f.u = Head(s.eq)}}

\* synth.cancel(): the queue is emptied, the paused flag is left as it is; the
\* engine may deliver one trailing event tr for the utterance that was cut off
SynthCancel(s, tr) ==
  IF s.eq = <<>> THEN s
  ELSE LET u == Head(s.eq)
           others == {e \in s.inbox : e.u # u}
           trailing == IF tr \in TrailChoices(s) \ {"none"}
                         THEN {[u |-> u, ev |-> tr]}
                         ELSE {}
       IN  [s EXCEPT !.eq = <<>>, !.phase = "idle", !.bnd = 0,
                     !.inbox = others \cup trailing]

\* synth.pause(): the engine enters the paused state; an utterance that was
\* being spoken gets a pause event
SynthPause(s) ==
  [s EXCEPT !.paused = TRUE,
            !.inbox = IF SynthSpeaking(s) /\ ~s.paused
                        THEN @ \cup {[u |-> Head(s.eq), ev |-> "pause"]}
                        ELSE @]

\* synth.resume(): the engine leaves the paused state; a paused utterance gets
\* a resume event, a pending head utterance begins
SynthResume(s) ==
  [s EXCEPT !.paused = FALSE,
            !.phase = IF @ = "pending" THEN "begun" ELSE @,
            !.inbox = IF SynthSpeaking(s) /\ s.paused
                        THEN @ \cup {[u |-> Head(s.eq), ev |-> "resume"]}
                        ELSE @]

\* The head utterance has terminated: it leaves the queue before its end or
\* error event is dispatched; the next one has not begun yet
SynthPop(s) ==
  [s EXCEPT !.eq = Tail(@),
            !.phase = IF Len(s.eq) > 1 THEN "pending" ELSE "idle",
            !.bnd = 0,
            !.inbox = {e \in @ : e.u # Head(s.eq)}]

\* After a handler returned: a pending head utterance begins unless paused
SynthAdvance(s) ==
  IF s.eq # <<>> /\ s.phase = "pending" /\ ~s.paused
    THEN [s EXCEPT !.phase = "begun"]
    ELSE s

----------------------------------------------------------------------------
(* services/speechService.js *)

RECURSIVE speak(_, _, _, _)

\* A property of synth is read while synth is undefined: the call ends with
\* an uncaught TypeError
TypeError(s) == [s EXCEPT !.thrown = TRUE]

\* "if (callback) callback(...)": the callback registered under name, if any,
\* is invoked for utterance u; a "respeak" callback calls speak() from inside
InvokeCallback(s, name, u, x, tr) ==
  IF s.cbs[name] = Null THEN s
  ELSE LET s1 == Log(s, "cb", name, u, x)
       IN  IF s.cbs[name] = "respeak" /\ s1.calls < CallLimit(s1)
             THEN speak(s1, ReArg.text, ReArg.opts, tr)
             ELSE s1

\* Mutant of processNextUtterance: the branch that signals the end of the
\* session is missing
processNextUtterance_NoEndSignal(s, u, tr) ==
  IF Len(s.uq) > 0 /\ ~SynthSpeaking(s)
    THEN SynthSpeak([s EXCEPT !.cur = Head(s.uq), !.uq = Tail(s.uq)], Head(s.uq))
    ELSE s

\* processNextUtterance, called for utterance u's end event or by speak()
processNextUtterance(s, u, tr) ==
  IF Len(s.uq) > 0 /\ ~SynthSpeaking(s)
    THEN SynthSpeak([s EXCEPT !.cur = Head(s.uq), !.uq = Tail(s.uq)], Head(s.uq))
    ELSE IF Len(s.uq) = 0 /\ ~SynthSpeaking(s)
           THEN InvokeCallback(s, "onEnd", u, 0, tr)
           ELSE s

\* createUtterance(text, options): the utterance of chunk idx of a speak() call,
\* or the preview utterance
createUtterance(kind, sess, idx, text, opts) ==
  [kind |-> kind, sess |-> sess, idx |-> idx, text |-> text, opts |-> opts]

\* utterance.onstart
onstart(s, u, tr) == InvokeCallback(s, "onStart", u, 0, tr)

\* utterance.onend
onend(s, u, tr) == processNextUtterance(s, u, tr)

\* Mutant of utterance.onerror: the queue of remaining chunks is kept
onerror_KeepsQueue(s, u, tr) ==
  LET s1 == InvokeCallback(s, "onError", u, 0, tr)
      s2 == SynthCancel(s1, tr)
      s3 == [s2 EXCEPT !.cur = NoU]
  IN  InvokeCallback(s3, "onEnd", u, 0, tr)

\* utterance.onerror
onerror(s, u, tr) ==
  LET s1 == InvokeCallback(s, "onError", u, 0, tr)
      s2 == SynthCancel(s1, tr)
      s3 == [s2 EXCEPT !.uq = <<>>, !.cur = NoU]
  IN  InvokeCallback(s3, "onEnd", u, 0, tr)

\* utterance.onpause
onpause(s, u, tr) == InvokeCallback(s, "onPause", u, 0, tr)

\* utterance.onresume
onresume(s, u, tr) == InvokeCallback(s, "onResume", u, 0, tr)

\* utterance.onboundary
onboundary(s, u, k, tr) == InvokeCallback(s, "onBoundary", u, k, tr)

\* Mutant of the queue that speak() builds: the chunks in reverse order
QueueOf_Reversed(sess, text, opts) ==
  [i \in 1..Len(ChunkTable[text]) |->
     createUtterance("chunk", sess, Len(ChunkTable[text]) - i, text, opts)]

\* textChunks.forEach(chunk => utteranceQueue.push(createUtterance(chunk, options)))
QueueOf(sess, text, opts) ==
  [i \in 1..Len(ChunkTable[text]) |-> createUtterance("chunk", sess, i - 1, text, opts)]

\* Mutant of speechService.speak: the chunks still queued are kept in front
\* of the new ones
speak_KeepsQueue(s, text, opts, tr) ==
  LET s0 == Called(s, "speak", CallArg(s, text, opts))
      s1 == [s0 EXCEPT !.gen = s0.calls]
      s2 == SynthCancel(s1, tr)
      s3 == [s2 EXCEPT !.uq = @ \o QueueOf(s1.gen, text, opts), !.cur = NoU]
  IN  IF ~s0.supported
        THEN InvokeCallback(s0, "onError", NoU, 0, tr)
        ELSE processNextUtterance(s3, NoU, tr)

\* speechService.speak(text, options)
speak(s, text, opts, tr) ==
  LET s0 == Called(s, "speak", CallArg(s, text, opts))
      s1 == [s0 EXCEPT !.gen = s0.calls]
      s2 == SynthCancel(s1, tr)
      s3 == [s2 EXCEPT !.uq = QueueOf(s1.gen, text, opts), !.cur = NoU]
  IN  IF ~s0.supported
        THEN InvokeCallback(s0, "onError", NoU, 0, tr)
        ELSE processNextUtterance(s3, NoU, tr)

\* Mutant of speechService.pause(): the guard is missing
pause_Unguarded(s) ==
  LET s0 == Called(s, "pause", NoU)
  IN  IF ~s0.supported THEN TypeError(s0) ELSE SynthPause(s0)

\* speechService.pause()
pause(s) ==
  LET s0 == Called(s, "pause", NoU)
  IN  IF ~s0.supported THEN TypeError(s0)
      ELSE IF SynthSpeaking(s0) /\ ~s0.paused THEN SynthPause(s0) ELSE s0

\* speechService.resume()
resume(s) ==
  LET s0 == Called(s, "resume", NoU)
  IN  IF ~s0.supported THEN TypeError(s0)
      ELSE IF s0.paused THEN SynthResume(s0) ELSE s0

\* Mutant of speechService.stop(): the guard is missing
stop_Unguarded(s, tr) ==
  LET s0 == Called(s, "stop", NoU)
  IN  IF ~s0.supported THEN TypeError(s0)
      ELSE LET s1 == SynthCancel(s0, tr)
               s2 == [s1 EXCEPT !.uq = <<>>, !.cur = NoU]
           IN  InvokeCallback(s2, "onEnd", NoU, 0, tr)

\* speechService.stop()
stop(s, tr) ==
  LET s0 == Called(s, "stop", NoU)
  IN  IF ~s0.supported THEN TypeError(s0)
      ELSE IF SynthSpeaking(s0) \/ s0.paused
        THEN LET s1 == SynthCancel(s0, tr)
                 s2 == [s1 EXCEPT !.uq = <<>>, !.cur = NoU]
             IN  InvokeCallback(s2, "onEnd", NoU, 0, tr)
        ELSE s0

\* speechService.previewVoice(options)
previewVoice(s, opts, tr) ==
  LET s0 == Called(s, "previewVoice", CallArg(s, "preview", opts))
      s1 == SynthCancel(s0, tr)
  IN  IF ~s0.supported THEN s0
      ELSE SynthSpeak(s1, createUtterance("preview", s0.calls, 0, "preview", opts))

\* Mutant of speechService.setCallbacks: a field the new object omits keeps
\* the callback registered before
setCallbacks_Merge(s, reg) ==
  LET s0 == [s EXCEPT !.regs = @ + 1, !.thrown = FALSE,
                       !.cbs = [n \in CallbackNames |->
                                  IF reg[n] # Null THEN reg[n] ELSE s.cbs[n]],
                       !.lastCall = [n |-> "setCallbacks", u |-> NoU, st |-> StatusOf(s)]]
  IN  Log(s0, "call", "setCallbacks", NoU, reg)

\* speechService.setCallbacks({onStart, onEnd, onPause, onResume, onBoundary, onError})
setCallbacks(s, reg) ==
  LET s0 == [s EXCEPT !.regs = @ + 1, !.cbs = reg, !.thrown = FALSE,
                       !.lastCall = [n |-> "setCallbacks", u |-> NoU, st |-> StatusOf(s)]]
  IN  Log(s0, "call", "setCallbacks", NoU, reg)

----------------------------------------------------------------------------
(* hooks/useSpeechSynthesis.js *)

\* new SpeechSynthesisUtterance(text), as the call number sess of speak() makes it
hookUtterance(sess, text) ==
  [kind |-> "hook", sess |-> sess, idx |-> 0, text |-> text, opts |-> 0]

\* utterance.onstart
hookOnstart(s) == [s EXCEPT !.isPlaying = TRUE, !.isPaused = FALSE, !.charIndex = 0]

\* utterance.onend
hookOnend(s) == [s EXCEPT !.isPlaying = FALSE, !.isPaused = FALSE, !.charIndex = 0]

\* utterance.onerror
hookOnerror(s) == [s EXCEPT !.isPlaying = FALSE, !.isPaused = FALSE]

\* utterance.onpause
hookOnpause(s) == [s EXCEPT !.isPaused = TRUE]

\* utterance.onresume
hookOnresume(s) == [s EXCEPT !.isPaused = FALSE]

\* utterance.onboundary, for an event named 'word' or 'sentence'
hookOnboundary(s, k) == [s EXCEPT !.charIndex = k]

\* speak(text)
hookSpeak(s, text, tr) ==
  LET s0 == Called(s, "speak", CallArg(s, text, 0))
      s1 == IF SynthSpeaking(s0) /\ ~s0.paused THEN SynthCancel(s0, tr) ELSE s0
  IN  IF s1.paused
        THEN [SynthResume(s1) EXCEPT !.isPaused = FALSE, !.isPlaying = TRUE]
        ELSE SynthSpeak(s1, hookUtterance(s0.calls, text))

\* pause()
hookPause(s) ==
  LET s0 == Called(s, "pause", NoU)
  IN  IF SynthSpeaking(s0) /\ ~s0.paused
        THEN [SynthPause(s0) EXCEPT !.isPaused = TRUE]
        ELSE s0

\* resume()
hookResume(s) ==
  LET s0 == Called(s, "resume", NoU)
  IN  IF s0.paused
        THEN [SynthResume(s0) EXCEPT !.isPaused = FALSE, !.isPlaying = TRUE]
        ELSE s0

\* stop()
hookStop(s, tr) ==
  LET s0 == Called(s, "stop", NoU)
  IN  IF SynthSpeaking(s0) \/ s0.paused
        THEN [SynthCancel(s0, tr) EXCEPT !.isPlaying = FALSE, !.isPaused = FALSE,
                                         !.charIndex = 0]
        ELSE s0

----------------------------------------------------------------------------
(* Actions: the application's calls of the hook *)

HookSpeak ==
  /\ calls < CallLimit(State)
  /\ \E text \in HookTexts, tr \in TrailChoices(State) :
       Commit(hookSpeak(State, text, tr))

HookPause ==
  /\ calls < CallLimit(State)
  /\ Commit(hookPause(State))

HookResume ==
  /\ calls < CallLimit(State)
  /\ Commit(hookResume(State))

HookStop ==
  /\ calls < CallLimit(State)
  /\ \E tr \in TrailChoices(State) : Commit(hookStop(State, tr))

----------------------------------------------------------------------------
(* Actions: the consumer's calls of speechService *)

\* The trailing events to consider for the synth.cancel() calls of a handler
\* that starts in state s: those of the utterance in flight in s, and, when a
\* callback calls speak(), those of the utterance that speak() submits
HandlerTrails(s) ==
  IF \E n \in CallbackNames : s.cbs[n] = "respeak"
    THEN TrailChoices(s) \cup {"none", "start", "end", "error"}
    ELSE TrailChoices(s)

Speak ==
  /\ calls < CallLimit(State)
  /\ \E arg \in SpeakChoices(run), tr \in TrailChoices(State) :
       Commit(speak(State, arg.text, arg.opts, tr))

Pause ==
  /\ calls < CallLimit(State)
  /\ Commit(pause(State))

Resume ==
  /\ calls < CallLimit(State)
  /\ Commit(resume(State))

Stop ==
  /\ calls < CallLimit(State)
  /\ \E tr \in TrailChoices(State) : Commit(stop(State, tr))

PreviewVoice ==
  /\ calls < CallLimit(State)
  /\ \E opts \in PreviewInputs, tr \in TrailChoices(State) :
       Commit(previewVoice(State, opts, tr))

SetCallbacks ==
  /\ registrations < RegistrationLimit(State)
  /\ \E reg \in RegistrationChoices(run) : Commit(setCallbacks(State, reg))

----------------------------------------------------------------------------
(* Actions: the engine delivers an event to an utterance's handler *)

\* The handler attached to utterance u for event ev: the hook's for an
\* utterance the hook made, createUtterance's for one of speechService
Dispatch(s, u, ev, k, tr) ==
  LET s0 == Log(s, "event", ev, u, k)
  IN  IF u.kind = "hook"
        THEN CASE ev = "start" -> hookOnstart(s0)
               [] ev = "boundary" -> hookOnboundary(s0, k)
               [] ev = "end" -> hookOnend(s0)
               [] ev = "error" -> hookOnerror(s0)
               [] ev = "pause" -> hookOnpause(s0)
               [] ev = "resume" -> hookOnresume(s0)
        ELSE CASE ev = "start" -> onstart(s0, u, tr)
               [] ev = "boundary" -> onboundary(s0, u, k, tr)
               [] ev = "end" -> onend(s0, u, tr)
               [] ev = "error" -> onerror(s0, u, tr)
               [] ev = "pause" -> onpause(s0, u, tr)
               [] ev = "resume" -> onresume(s0, u, tr)

\* The text of utterance u: a chunk, the text given to the hook, or the preview
UtteranceText(u) ==
  CASE u.kind = "chunk" -> ChunkTable[u.text][u.idx + 1]
    [] u.kind = "hook" -> TextOf[u.text]
    [] OTHER -> PREVIEW_VOICE_TEXT

\* event.charIndex of a boundary event of utterance u: a position in its text
BoundaryIndexes(u) == {k \in CharIndexes : k < Len(UtteranceText(u))}

\* start event of the head utterance
EvStart ==
  /\ synthQueue # <<>> /\ synthPhase = "begun" /\ ~synthPaused
  /\ Commit(Dispatch([State EXCEPT !.phase = "started"], Head(synthQueue),
                     "start", 0, "none"))

\* boundary event of the head utterance
EvBoundary ==
  /\ synthQueue # <<>> /\ synthPhase = "started" /\ ~synthPaused
  /\ synthBoundaries < MaxBoundary
  /\ \E k \in BoundaryIndexes(Head(synthQueue)) :
       Commit(Dispatch([State EXCEPT !.bnd = @ + 1], Head(synthQueue),
                       "boundary", k, "none"))

\* end event of the head utterance: it has been spoken to its end
EvEnd ==
  /\ synthQueue # <<>> /\ synthPhase = "started" /\ ~synthPaused
  /\ \E tr \in HandlerTrails(SynthPop(State)) :
       Commit(SynthAdvance(Dispatch(SynthPop(State), Head(synthQueue), "end", 0, tr)))

\* error event of the head utterance: the engine failed to speak it
EvError ==
  /\ synthQueue # <<>> /\ synthPhase \in {"begun", "started"}
  /\ \E tr \in HandlerTrails(SynthPop(State)) :
       Commit(SynthAdvance(Dispatch(SynthPop(State), Head(synthQueue), "error", 0, tr)))

\* a pause or resume event, or the trailing event of a cancelled utterance
EvDeferred ==
  \E e \in inbox :
   \E k \in IF e.ev = "boundary" THEN BoundaryIndexes(e.u) ELSE {0} :
    \E tr \in IF e.ev \in {"end", "error"} THEN HandlerTrails(State) ELSE {"none"} :
      Commit(SynthAdvance(Dispatch([State EXCEPT !.inbox = @ \ {e}], e.u, e.ev,
                                   k, tr)))

Next ==
  \/ Speak
  \/ Pause
  \/ Resume
  \/ Stop
  \/ PreviewVoice
  \/ SetCallbacks
  \/ EvStart
  \/ EvBoundary
  \/ EvEnd
  \/ EvError
  \/ EvDeferred

Spec == Init /\ [][Next]_vars

\* The same program, more calls, no history
DeepSpec == DeepInit /\ [][Next]_vars

\* The same program, callbacks registered more than once, with the history
RegistrySpec == RegistryInit /\ [][Next]_vars

\* chunkText(text, maxChunkLength) is called; it returns or loops for ever
ChunkText ==
  /\ run = "chunk"
  /\ chunkOut = NotReturned
  /\ chunkOut' = IF Returns(chunkIn.text, chunkIn.max)
                   THEN [done |-> TRUE, chunks |-> chunkText(chunkIn.text, chunkIn.max)]
                   ELSE Looping
  /\ UNCHANGED <<utteranceQueue, currentUtterance, callbacks, synthQueue, synthPhase,
                 synthBoundaries, synthPaused, inbox, isPlaying, isPaused, charIndex,
                 lastCall, calls, registrations, gen, trace, synthSupported, thrown,
                 chunkIn, run>>
  /\ UNCHANGED voiceVars
  /\ UNCHANGED progressVars

ChunkNext == ChunkText

ChunkSpec == ChunkInit /\ [][ChunkNext]_vars

\* chunkText called with a maxChunkLength <= 0
InvalidChunkSpec == InvalidChunkInit /\ [][ChunkNext]_vars

----------------------------------------------------------------------------
(* App: the progress bar alone *)

\* A render of the App with some charIndex and some textToSpeak, the progress
\* bar not rendered yet
ProgressInit ==
  /\ Constructed
  /\ run = "progress"
  /\ synthSupported = TRUE
  /\ chunkIn = NoChunkInput
  /\ progressIn \in ProgressInputs

\* The App computes progress and renders <ProgressBar progress={progress} />
RenderProgress ==
  /\ run = "progress"
  /\ progressOut = NotRendered
  /\ progressOut' = ProgressBar(progress(progressIn.charIndex,
                                         countCharacters(progressIn.textToSpeak)))
  /\ UNCHANGED <<utteranceQueue, currentUtterance, callbacks, synthQueue, synthPhase,
                 synthBoundaries, synthPaused, inbox, isPlaying, isPaused, charIndex,
                 lastCall, calls, registrations, gen, trace, synthSupported, thrown,
                 chunkIn, chunkOut, progressIn, run>>
  /\ UNCHANGED voiceVars

ProgressNext == RenderProgress

ProgressSpec == ProgressInit /\ [][ProgressNext]_vars

----------------------------------------------------------------------------
(* useSpeechSynthesis.js: the list of voices *)

\* availableVoices.find(voice => voice.lang === 'en-US' || voice.lang ===
\* 'en-GB' || voice.default) || availableVoices[0]
DefaultVoice(availableVoices) ==
  LET found == {i \in DOMAIN availableVoices :
                  \/ availableVoices[i].lang \in {"en-US", "en-GB"}
                  \/ availableVoices[i].default}
  IN  IF found # {} THEN availableVoices[CHOOSE i \in found : \A j \in found : i <= j]
      ELSE IF Len(availableVoices) > 0 THEN availableVoices[1]
      ELSE NoVoice

\* The selectedVoice that populateVoiceList sets, when the populateVoiceList
\* called is the one of a render whose selectedVoice was sel
Selected(sel, availableVoices) ==
  IF sel = NoVoice /\ Len(availableVoices) > 0 THEN DefaultVoice(availableVoices)
  ELSE IF sel # NoVoice
          /\ ~\E i \in DOMAIN availableVoices : availableVoices[i].name = sel.name
    THEN DefaultVoice(availableVoices)
  ELSE selectedVoice

\* What the steps of the list of voices leave alone
VoiceFrame ==
  UNCHANGED <<utteranceQueue, currentUtterance, callbacks, synthQueue, synthPhase,
              synthBoundaries, synthPaused, inbox, isPlaying, isPaused, charIndex,
              lastCall, calls, registrations, gen, trace, synthSupported, thrown,
              chunkIn, chunkOut, progressIn, progressOut, run>>

\* Mutant of the effect: it registers the listener whatever getVoices() returns
HookEffect_ListensOnly ==
  /\ run = "voices"
  /\ VoiceFrame
  /\ effectPending
  /\ voicesChangedListener' = [on |-> TRUE, selectedVoice |-> selectedVoice]
  /\ effectPending' = FALSE
  /\ UNCHANGED <<voices, selectedVoice, synthVoices, voicesChangedEvents>>

\* The effect has run before, so that its cleanup function exists: every run
\* of the effect either finds voices, which the hook then holds, or registers
\* the listener
EffectHasRun == voicesChangedListener.on \/ Len(voices) > 0

\* The effect runs, after the first render and after every render in which
\* populateVoiceList (that is, selectedVoice) has changed: the cleanup of the
\* effect before removes its listener and calls synth.cancel(), then the
\* voices are read or the listener registered
HookEffect ==
  /\ run \in {"voices", "hook"}
  /\ effectPending
  /\ \E tr \in TrailChoices(State) :
       LET s == IF EffectHasRun THEN SynthCancel(State, tr) ELSE State
       IN  /\ synthQueue' = s.eq
           /\ synthPhase' = s.phase
           /\ synthBoundaries' = s.bnd
           /\ inbox' = s.inbox
  /\ UNCHANGED <<utteranceQueue, currentUtterance, callbacks, synthPaused, isPlaying,
                 isPaused, charIndex, lastCall, calls, registrations, gen, trace,
                 synthSupported, thrown, chunkIn, chunkOut, progressIn, progressOut,
                 run>>
  /\ IF Len(synthVoices) > 0
       THEN /\ voices' = synthVoices
            /\ selectedVoice' = Selected(selectedVoice, synthVoices)
            /\ voicesChangedListener' = NoListener
       ELSE /\ voicesChangedListener' = [on |-> TRUE, selectedVoice |-> selectedVoice]
            /\ UNCHANGED <<voices, selectedVoice>>
  /\ effectPending' = (selectedVoice' # selectedVoice)
  /\ UNCHANGED <<synthVoices, voicesChangedEvents>>

\* The engine has loaded its voices and announces them
VoicesReady ==
  /\ run = "voices"
  /\ VoiceFrame
  /\ synthVoices = <<>>
  /\ voicesChangedEvents < MaxVoicesChanged
  /\ \E l \in VoiceLists : synthVoices' = l
  /\ voicesChangedEvents' = voicesChangedEvents + 1
  /\ UNCHANGED <<voices, selectedVoice, voicesChangedListener, effectPending>>

\* The engine announces its voices once more, the list being what it was
VoicesAnnounced ==
  /\ run = "voices"
  /\ VoiceFrame
  /\ voicesChangedEvents < MaxVoicesChanged
  /\ voicesChangedEvents' = voicesChangedEvents + 1
  /\ UNCHANGED <<synthVoices, voices, selectedVoice, voicesChangedListener, effectPending>>

\* A 'voiceschanged' event is delivered: the registered populateVoiceList runs
EvVoicesChanged ==
  /\ run = "voices"
  /\ VoiceFrame
  /\ voicesChangedEvents > 0
  /\ voicesChangedEvents' = voicesChangedEvents - 1
  /\ IF voicesChangedListener.on
       THEN /\ voices' = synthVoices
            /\ selectedVoice' = Selected(voicesChangedListener.selectedVoice, synthVoices)
            /\ effectPending' = (effectPending \/ selectedVoice' # selectedVoice)
       ELSE UNCHANGED <<voices, selectedVoice, effectPending>>
  /\ UNCHANGED <<synthVoices, voicesChangedListener>>

\* The user picks one of the voices the hook lists (setSelectedVoice)
SetSelectedVoice ==
  /\ run \in {"voices", "hook"}
  /\ VoiceFrame
  /\ \E i \in DOMAIN voices : selectedVoice' = voices[i]
  /\ effectPending' = (effectPending \/ selectedVoice' # selectedVoice)
  /\ UNCHANGED <<synthVoices, voicesChangedEvents, voices, voicesChangedListener>>

VoiceNext ==
  \/ HookEffect
  \/ VoicesReady
  \/ VoicesAnnounced
  \/ EvVoicesChanged
  \/ SetSelectedVoice

VoiceSpec == VoiceInit /\ [][VoiceNext]_vars

\* The same, given that React runs a pending effect and the browser delivers a
\* pending event
VoiceLiveSpec ==
  /\ VoiceSpec
  /\ WF_vars(HookEffect)
  /\ WF_vars(EvVoicesChanged)

\* The application driving the engine through the hook
HookNext ==
  \/ HookSpeak
  \/ HookPause
  \/ HookResume
  \/ HookStop
  \/ EvStart
  \/ EvBoundary
  \/ EvEnd
  \/ EvError
  \/ EvDeferred

HookSpec == HookInit /\ [][HookNext]_vars

\* The hook once the engine has loaded two voices or more and the effect has
\* read them and chosen the default voice; nothing has been spoken yet
HookVoiceInit ==
  /\ utteranceQueue = <<>>
  /\ currentUtterance = NoU
  /\ callbacks = [n \in CallbackNames |-> Null]
  /\ synthQueue = <<>>
  /\ synthPhase = "idle"
  /\ synthBoundaries = 0
  /\ synthPaused = FALSE
  /\ inbox = {}
  /\ isPlaying = FALSE
  /\ isPaused = FALSE
  /\ charIndex = 0
  /\ lastCall = [n |-> "none", u |-> NoU, st |-> "Idle"]
  /\ calls = 0
  /\ registrations = 0
  /\ gen = 0
  /\ trace = <<>>
  /\ thrown = FALSE
  /\ chunkOut = NotReturned
  /\ chunkIn = NoChunkInput
  /\ synthSupported = TRUE
  /\ run = "hook"
  /\ synthVoices \in {l \in VoiceLists : Len(l) >= 2}
  /\ voicesChangedEvents = 0
  /\ voices = synthVoices
  /\ selectedVoice = DefaultVoice(synthVoices)
  /\ voicesChangedListener = NoListener
  /\ effectPending = FALSE
  /\ progressIn = NoProgressInput
  /\ progressOut = NotRendered

\* The application speaks through the hook and picks other voices meanwhile
HookVoiceNext ==
  \/ HookNext
  \/ SetSelectedVoice
  \/ HookEffect

HookVoiceSpec == HookVoiceInit /\ [][HookVoiceNext]_vars

----------------------------------------------------------------------------
(* Reading the history *)

\* The entries the step under consideration appends to the history
Appended == SubSeq(trace', Len(trace) + 1, Len(trace'))

IsCall(e, n) == e.k = "call" /\ e.n = n

IsEvent(e, n) == e.k = "event" /\ e.n = n

IsCb(e, n) == e.k = "cb" /\ e.n = n

\* A submission of a chunk of the speak() call number sess
IsSubmitOf(e, sess) == e.k = "submit" /\ e.u.kind = "chunk" /\ e.u.sess = sess

\* A call that counts against the call limit (every call but setCallbacks)
IsSessionCall(e) == e.k = "call" /\ e.n # "setCallbacks"

\* The positions after i up to, and without, the next call after i
UntilNextCall(i) ==
  {j \in (i + 1)..Len(trace) : \A m \in (i + 1)..j : ~IsSessionCall(trace[m])}

----------------------------------------------------------------------------
(* C1 *)

\* C1: an engine event of a chunk of an earlier speak() call than the current
\* one is discarded: the step that delivers it invokes no consumer callback,
\* submits nothing and leaves the chunk queue and the engine's queue as they are.
C1_StaleEventDiscarded ==
  [][(/\ Len(trace') > Len(trace)
      /\ trace'[Len(trace) + 1].k = "event"
      /\ trace'[Len(trace) + 1].u.kind = "chunk"
      /\ trace'[Len(trace) + 1].u.sess < gen)
     => (/\ Len(trace') = Len(trace) + 1
         /\ UNCHANGED <<utteranceQueue, currentUtterance, synthQueue, synthPhase>>)]_vars

----------------------------------------------------------------------------
(* C2 *)

\* The preview utterance of the previewVoice call at position i has ended
PreviewEnded(i) ==
  \E j \in (i + 1)..Len(trace) :
    /\ IsEvent(trace[j], "end")
    /\ trace[j].u.kind = "preview"
    /\ trace[j].u.sess = trace[i].u.sess

\* C2: after previewVoice() was called on a Playing session, no chunk of that
\* session is submitted any more, and once the preview utterance has ended
\* (and no further call was made) the status is Idle.
C2_PreviewDoesNotResume ==
  \A i \in DOMAIN trace :
    (IsCall(trace[i], "previewVoice") /\ trace[i].st = "Playing")
    => /\ \A j \in (i + 1)..Len(trace) : ~IsSubmitOf(trace[j], trace[i].g)
       /\ (PreviewEnded(i) /\ UntilNextCall(i) = (i + 1)..Len(trace))
            => ServiceStatus(State) = "Idle"

----------------------------------------------------------------------------
(* C3 *)

\* The positions in Appended of a speak() made from inside a callback
ReentrantSpeaks ==
  {j \in 2..Len(Appended) :
     IsCall(Appended[j], "speak") /\ Appended[j - 1].k = "cb"}

\* C3: when a callback calls speak(Y), the handler that invoked the callback
\* leaves Y alone: once the handler has returned, Y's chunk 0 is the utterance
\* in the engine and Y's other chunks are the chunk queue, in order.
C3_ReentrantSpeakSurvives ==
  [][ReentrantSpeaks # {}
     => LET y == Appended[CHOOSE j \in ReentrantSpeaks : TRUE].u
            q == QueueOf(y.sess, y.text, y.opts)
        IN  /\ synthQueue' = <<Head(q)>>
            /\ utteranceQueue' = Tail(q)]_vars

----------------------------------------------------------------------------
(* C4 *)

\* C4: speak(text2) called on the hook while it reports Paused starts a new
\* utterance: when the call returns the engine's queue holds exactly the
\* utterance of text2 made by this call, nothing of the paused one.
C4_SpeakWhilePausedStartsNew ==
  [][(calls' = calls + 1 /\ lastCall'.n = "speak" /\ HookStatus(State) = "Paused")
     => synthQueue' = <<hookUtterance(calls', lastCall'.u.text)>>]_vars

----------------------------------------------------------------------------
(* C5 *)

\* C5: after stop(), once the engine has nothing more to deliver, the hook
\* reports Idle and charIndex (the progress) is 0, whatever the state was in
\* which stop() was called.
C5_StopLeavesIdleAndZero ==
  (lastCall.n = "stop" /\ inbox = {})
  => (HookStatus(State) = "Idle" /\ ~isPaused /\ charIndex = 0)

----------------------------------------------------------------------------
(* C6 *)

\* The number of invocations of callback n among the positions in set
CbCount(set, n) == Cardinality({j \in set : IsCb(trace[j], n)})

\* C6: a stop() called while Playing or Paused, with onEnd and onError
\* registered, is followed (up to the next call) by exactly one onEnd and by
\* no onError, whatever the engine delivers afterwards for the cancelled chunk.
C6_StopFiresOnEndOnce ==
  \A i \in DOMAIN trace :
    (/\ IsCall(trace[i], "stop")
     /\ trace[i].st \in {"Playing", "Paused"}
     /\ trace[i].cbs["onEnd"] # Null
     /\ trace[i].cbs["onError"] # Null)
    => (CbCount(UntilNextCall(i), "onEnd") = 1 /\ CbCount(UntilNextCall(i), "onError") = 0)

----------------------------------------------------------------------------
(* C7 *)

\* The positions of the invocations of callback n for utterance u
CbsFor(u, n) == {j \in DOMAIN trace : IsCb(trace[j], n) /\ trace[j].u = u}

\* C7: an error event for a chunk of the current speak() call, with onError
\* and onEnd registered, gives the consumer onError and then onEnd for that
\* chunk, each exactly once, with the status Idle when onEnd is invoked, and
\* no chunk of that call is submitted afterwards.
C7_ErrorAbortsSession ==
  \A i \in DOMAIN trace :
    (/\ IsEvent(trace[i], "error")
     /\ trace[i].u.kind = "chunk"
     /\ trace[i].u.sess = trace[i].g
     /\ trace[i].cbs["onError"] # Null
     /\ trace[i].cbs["onEnd"] # Null)
    => /\ Cardinality(CbsFor(trace[i].u, "onError")) = 1
       /\ Cardinality(CbsFor(trace[i].u, "onEnd")) = 1
       /\ \A a \in CbsFor(trace[i].u, "onError"), b \in CbsFor(trace[i].u, "onEnd") :
            i < a /\ a < b /\ trace[b].st = "Idle"
       /\ \A j \in (i + 1)..Len(trace) : ~IsSubmitOf(trace[j], trace[i].u.sess)

\* C7 witness: the second chunk of a two-chunk text failed and onError, onEnd
\* were invoked for it
C7_Witness ==
  \E i \in DOMAIN trace :
    /\ IsEvent(trace[i], "error")
    /\ trace[i].u.kind = "chunk" /\ trace[i].u.idx = 1
    /\ trace[i].u.sess = trace[i].g
    /\ CbsFor(trace[i].u, "onError") # {}
    /\ CbsFor(trace[i].u, "onEnd") # {}

----------------------------------------------------------------------------
(* C8, C9 *)

\* The positions of the calls other than setCallbacks
SessionCalls == {i \in DOMAIN trace : IsSessionCall(trace[i])}

\* One uninterrupted session: the only call besides setCallbacks is one
\* speak() of a text of at least one chunk, no chunk failed, and the callback
\* n was registered before speak() and has stayed registered
Uninterrupted(n) ==
  /\ Cardinality(SessionCalls) = 1
  /\ \A i \in SessionCalls :
       /\ IsCall(trace[i], "speak")
       /\ Len(ChunkTable[trace[i].u.text]) >= 1
       /\ \A j \in i..Len(trace) : trace[j].cbs[n] # Null
  /\ \A j \in DOMAIN trace : ~IsEvent(trace[j], "error")

\* C8: in one uninterrupted session onStart is invoked exactly once, when the
\* engine confirms the start of the first chunk, however many chunks follow.
C8_OnStartOncePerSession ==
  Uninterrupted("onStart")
  => CbCount(DOMAIN trace, "onStart")
       = (IF \E j \in DOMAIN trace : IsEvent(trace[j], "start") THEN 1 ELSE 0)

\* The positions of the end events of the last chunk of the text spoken
LastChunkEnds ==
  {j \in DOMAIN trace :
     /\ IsEvent(trace[j], "end")
     /\ trace[j].u.idx = Len(ChunkTable[trace[j].u.text]) - 1}

\* C9: in one uninterrupted session onEnd is not invoked before the end event
\* of the last chunk, and is invoked exactly once for that event, with the
\* service then Idle.
C9_OnEndOnceAfterLastChunk ==
  Uninterrupted("onEnd")
  => IF LastChunkEnds = {}
       THEN CbCount(DOMAIN trace, "onEnd") = 0
       ELSE /\ CbCount(DOMAIN trace, "onEnd") = 1
            /\ \A j \in LastChunkEnds : IsCb(trace[j + 1], "onEnd") /\ trace[j + 1].st = "Idle"
            /\ ServiceStatus(State) = "Idle"

\* C9 witness: a two-chunk session ran to its end and onEnd was invoked
C9_Witness ==
  /\ Uninterrupted("onEnd")
  /\ \E j \in LastChunkEnds : trace[j].u.idx = 1
  /\ CbCount(DOMAIN trace, "onEnd") = 1

----------------------------------------------------------------------------
(* C10 *)

\* C10: the engine never holds more than one utterance that was submitted and
\* has not terminated.
C10_OneSubmissionInFlight == Len(synthQueue) <= 1

----------------------------------------------------------------------------
(* C11, C12 *)

\* A step that is a call and changes nothing: the chunk queue, the callbacks,
\* the engine (its queue, its paused flag, the events it has yet to deliver)
\* and the hook's state are as before, and the history gains the call only
NoOpCall ==
  /\ UNCHANGED <<utteranceQueue, currentUtterance, callbacks, synthQueue, synthPhase,
                 synthBoundaries, synthPaused, inbox, isPlaying, isPaused, charIndex, gen>>
  /\ run = "traced" => Len(trace') = Len(trace) + 1

\* C11: pause() called while Idle (nothing queued, nothing in the engine)
\* changes nothing: status, chunk queue and progress stay, the engine gets no
\* pause request and no callback is invoked.
C11_PauseWhileIdleIsNoOp ==
  [][(calls' = calls + 1 /\ lastCall'.n = "pause" /\ ServiceStatus(State) = "Idle")
     => NoOpCall]_vars

\* C11 witness: pause() was called while Idle, after an earlier call
C11_Witness == lastCall.n = "pause" /\ lastCall.st = "Idle" /\ calls = 2

\* C12: resume() called while Paused leaves the status Playing; called while
\* Idle or Playing it changes nothing and sends nothing to the engine.
C12_ResumeOnlyWhilePaused ==
  [][(calls' = calls + 1 /\ lastCall'.n = "resume")
     => IF ServiceStatus(State) = "Paused"
          THEN ServiceStatus(State)' = "Playing"
          ELSE NoOpCall]_vars

----------------------------------------------------------------------------
(* C13 *)

\* rate, pitch and volume of the options o are within the allowed ranges
ValidVoiceParams(o) ==
  /\ MIN_SPEECH_RATE <= o.rate /\ o.rate <= MAX_SPEECH_RATE
  /\ MIN_SPEECH_PITCH <= o.pitch /\ o.pitch <= MAX_SPEECH_PITCH
  /\ MIN_SPEECH_VOLUME <= o.volume /\ o.volume <= MAX_SPEECH_VOLUME

\* C13: speak() with a rate, pitch or volume outside the allowed range is
\* rejected: nothing is queued or submitted to the engine, and the chunk
\* queue, the engine and the current session are left as they were.
C13_InvalidParamsRejected ==
  [][(calls' = calls + 1 /\ lastCall'.n = "speak"
        /\ ~ValidVoiceParams(OptionsOf[lastCall'.u.opts]))
     => UNCHANGED <<utteranceQueue, currentUtterance, synthQueue, synthPhase,
                    synthBoundaries, inbox, gen>>]_vars

----------------------------------------------------------------------------
(* C14 *)

\* C14: without an engine every call fails fast: it creates no session, queues
\* and submits nothing, and does not go on to use the engine as if it existed,
\* which would end the call with a TypeError.
C14_UnsupportedEngineFailsFast ==
  [][(~synthSupported /\ calls' > calls)
     => /\ ~thrown'
        /\ UNCHANGED <<utteranceQueue, currentUtterance, synthQueue, synthPhase,
                       inbox, gen>>]_vars

----------------------------------------------------------------------------
(* C15, C16 *)

\* The positions at which onBoundary is invoked for a chunk; the entry holds
\* the index handed to the consumer, the entry before it the engine's event
BoundaryCbs ==
  {j \in DOMAIN trace : IsCb(trace[j], "onBoundary") /\ trace[j].u.kind = "chunk"}

RECURSIVE LengthOfFirst(_, _)
\* The sum of the lengths of the first n chunks
LengthOfFirst(chunks, n) ==
  IF n = 0 THEN 0 ELSE LengthOfFirst(chunks, n - 1) + Len(chunks[n])

\* C15: in one uninterrupted session the progress, that is the index that
\* successive onBoundary invocations hand to the consumer (the percentage is
\* that index times 100 / the length of the text), never decreases, also from
\* one chunk to the next.
C15_ProgressNeverDecreases ==
  Uninterrupted("onBoundary")
  => \A i, j \in BoundaryCbs : i < j => trace[i].x <= trace[j].x

\* C16: the index handed to the consumer for a boundary event at index k of
\* chunk i is k plus the lengths of the chunks 0..i-1 (so that the progress is
\* that sum times 100 / the length of the text).
C16_BoundaryIndexIsOffset ==
  \A j \in BoundaryCbs :
    trace[j].x = LengthOfFirst(ChunkTable[trace[j].u.text], trace[j].u.idx) + trace[j - 1].x

----------------------------------------------------------------------------
(* C17 *)

\* The position of the latest setCallbacks call before position j, 0 if none
LatestRegistration(j) ==
  LET before == {i \in 1..(j - 1) : IsCall(trace[i], "setCallbacks")}
  IN  IF before = {} THEN 0 ELSE CHOOSE i \in before : \A m \in before : m <= i

\* C17: every callback invoked is a field of the object given to the latest
\* setCallbacks call, and is that object's function: nothing of an earlier
\* registration is invoked, and nothing is invoked for a field the latest
\* object omits.
C17_SetCallbacksReplacesAll ==
  \A j \in DOMAIN trace :
    trace[j].k = "cb"
    => /\ LatestRegistration(j) # 0
       /\ trace[LatestRegistration(j)].x[trace[j].n] # Null
       /\ trace[j].cbs[trace[j].n] = trace[LatestRegistration(j)].x[trace[j].n]

\* C17 witness: a full registration, whose onStart was invoked for chunk 0,
\* was replaced by one that omits onStart; the session went on to chunk 1
\* and the new onEnd was invoked for it
C17_Witness ==
  \E a, c, b, j \in DOMAIN trace :
    /\ a < c /\ c < b /\ b < j
    /\ IsCall(trace[a], "setCallbacks") /\ trace[a].x["onStart"] # Null
    /\ IsCb(trace[c], "onStart") /\ trace[c].u.idx = 0
    /\ IsCall(trace[b], "setCallbacks") /\ trace[b].x["onStart"] = Null
    /\ IsCb(trace[j], "onEnd") /\ trace[j].u.idx = 1
    /\ synthQueue = <<>> /\ utteranceQueue = <<>>

----------------------------------------------------------------------------
(* chunkText alone *)

\* trim(t) in which every run of whitespace that begins and ends with a
\* newline is written as two newlines
BlankRunsCollapsed(t) == ReplaceBlankRuns(Trim(t), 0)

C19_ChunksWithinMaxLength ==
  chunkOut.done
    => \A i \in DOMAIN chunkOut.chunks : Len(chunkOut.chunks[i]) <= chunkIn.max

\* chunkText("a. aaaa", 3) has broken after the sentence and then cut hard;
\* chunkText("aaaaa a", 6) is the case of the break at the last space
C19_Witness ==
  /\ chunkOut.done
  /\ \/ /\ chunkIn = [text |-> <<"a", ".", " ", "a", "a", "a", "a">>, max |-> 3]
        /\ chunkOut.chunks = << <<"a", ".">>, <<"a", "a", "a">>, <<"a">> >>
     \/ /\ chunkIn = [text |-> <<"a", "a", "a", "a", "a", " ", "a">>, max |-> 6]
        /\ chunkOut.chunks = << <<"a", "a", "a", "a", "a">>, <<"a">> >>

\* The first 0-based position >= p of target that holds no whitespace, or
\* the length of target
SkipWs(target, p) ==
  LET rest == {q \in p..(Len(target) - 1) : ~IsWs(target[q + 1])}
  IN  IF rest = {} THEN Max(p, Len(target))
      ELSE CHOOSE q \in rest : \A r \in rest : q <= r

RECURSIVE Reassembles(_, _, _, _)
\* TRUE iff target from 0-based position p on is the chunks i, i + 1, ... in
\* order with nothing but whitespace before, between and after them
Reassembles(chunks, i, target, p) ==
  IF i > Len(chunks) THEN SkipWs(target, p) = Len(target)
  ELSE /\ OccursAt(target, chunks[i], SkipWs(target, p))
       /\ Reassembles(chunks, i + 1, target, SkipWs(target, p) + Len(chunks[i]))

Sanitized == sanitizeText(chunkIn.text)

FirstWindow == Substring(Sanitized, 0, chunkIn.max)

\* A sentence mark followed by whitespace, both inside the window w
MarkThenWs(w) ==
  \E i \in 1..(Len(w) - 1) : w[i] \in SentenceMarks /\ IsWs(w[i + 1])

\* C21: when the text is longer than maxLength and its first maxLength
\* characters hold a sentence mark followed by whitespace, the first chunk ends
\* with a sentence mark (the break is immediately after the mark).
C21_BreaksAfterSentenceMark ==
  (chunkOut.done /\ Len(Sanitized) > chunkIn.max /\ MarkThenWs(FirstWindow))
    => /\ Len(chunkOut.chunks) >= 1
       /\ chunkOut.chunks[1][Len(chunkOut.chunks[1])] \in SentenceMarks

\* The 0-based positions of the whitespace characters of the window w that lie
\* at or beyond 80% of maxLength
LateWs(w, maxLength) ==
  {p \in 0..(Len(w) - 1) : IsWs(w[p + 1]) /\ p * 10 >= maxLength * 8}

\* The break C22 describes for a window without sentence or paragraph break
FallbackBreak(w, maxLength) ==
  IF LateWs(w, maxLength) = {} THEN maxLength
  ELSE CHOOSE p \in LateWs(w, maxLength) : \A q \in LateWs(w, maxLength) : p >= q

\* C22: when the text is longer than maxLength and its first maxLength
\* characters hold neither a sentence mark followed by whitespace nor a blank
\* line, the first chunk is the text up to the last whitespace of the window
\* if that whitespace lies at or beyond 80% of maxLength, and the first
\* maxLength characters otherwise.
C22_FallbackBreaksAtLateWhitespace ==
  (/\ chunkOut.done
   /\ Len(Sanitized) > chunkIn.max
   /\ ~MarkThenWs(FirstWindow)
   /\ IndexOf(FirstWindow, <<"\n", "\n">>, 0) = -1)
    => /\ Len(chunkOut.chunks) >= 1
       /\ chunkOut.chunks[1]
            = Trim(Substring(Sanitized, 0, FallbackBreak(FirstWindow, chunkIn.max)))

\* C23: chunkText returns no empty chunk, and the empty sequence for a text
\* that is empty or whitespace only.
C23_NoEmptyChunk ==
  chunkOut.done
    => /\ \A i \in DOMAIN chunkOut.chunks : Len(chunkOut.chunks[i]) > 0
       /\ Trim(chunkIn.text) = <<>> => chunkOut.chunks = <<>>

\* C24: a call of chunkText with maxLength <= 0 raises an error and does
\* nothing else: it returns no chunks and does not loop for ever.
C24_NonPositiveLengthRejected ==
  [][(/\ chunkIn.max <= 0
      /\ chunkOut = NotReturned
      /\ chunkOut' # chunkOut \/ thrown' # thrown)
       => (thrown' /\ chunkOut' = NotReturned)]_vars

----------------------------------------------------------------------------
(* C25 *)

\* The positions of the calls of speak(), and of the submissions of chunks
SpeakCalls == {i \in DOMAIN trace : IsCall(trace[i], "speak")}

ChunkSubmits == {j \in DOMAIN trace : trace[j].k = "submit" /\ trace[j].u.kind = "chunk"}

\* One session that nothing interrupts: the engine exists, the first call
\* besides setCallbacks is the only speak(), every later call is pause() or
\* resume(), no chunk failed
UninterruptedSession ==
  /\ synthSupported
  /\ Cardinality(SpeakCalls) = 1
  /\ \A i \in SessionCalls :
       \/ i \in SpeakCalls /\ \A m \in SessionCalls : i <= m
       \/ IsCall(trace[i], "pause")
       \/ IsCall(trace[i], "resume")
  /\ \A j \in DOMAIN trace : ~IsEvent(trace[j], "error")

\* C25: in an uninterrupted session the n-th submission to the engine is chunk
\* n - 1 (in order, each once, none skipped), every chunk but the first is
\* submitted after the end event of the chunk before it, and when the session
\* is over every chunk has been submitted.
C25_ChunksSubmittedInOrder ==
  UninterruptedSession
  => /\ \A j \in ChunkSubmits :
          /\ trace[j].u.idx = Cardinality({m \in ChunkSubmits : m < j})
          /\ trace[j].u.idx > 0
               => \E a \in ChunkSubmits, e \in DOMAIN trace :
                    /\ a < e /\ e < j
                    /\ trace[a].u.idx = trace[j].u.idx - 1
                    /\ IsEvent(trace[e], "end")
                    /\ trace[e].u = trace[a].u
     /\ ServiceStatus(State) = "Idle"
          => \A i \in SpeakCalls :
               Cardinality(ChunkSubmits) = Len(ChunkTable[trace[i].u.text])

\* C25 witness: both chunks of the two-chunk text were submitted and the
\* session is over
C25_Witness ==
  /\ UninterruptedSession
  /\ Cardinality(ChunkSubmits) = 2
  /\ ServiceStatus(State) = "Idle"

----------------------------------------------------------------------------
(* C26 *)

\* The positions of the calls of speak() made while a session was Playing
SpeaksOverPlaying ==
  {i \in SpeakCalls : trace[i].st = "Playing" /\ synthSupported}

\* C26: after speak(Y) was called on a Playing session, and until the next
\* call, every chunk submitted is a chunk of Y, and the n-th of them is Y's
\* chunk n - 1, whatever events of the cancelled chunk are still delivered.
C26_NewSpeakInvalidatesOld ==
  \A i \in SpeaksOverPlaying :
    \A j \in UntilNextCall(i) \cap ChunkSubmits :
      /\ trace[j].u.sess = trace[i].u.sess
      /\ trace[j].u.idx = Cardinality({m \in UntilNextCall(i) \cap ChunkSubmits : m < j})

\* C26 witness: speak(Y) was called on a Playing session, the end event of
\* the cancelled chunk was delivered afterwards, and then Y's second chunk
\* was submitted
C26_Witness ==
  \E i \in SpeaksOverPlaying : \E e, j \in UntilNextCall(i) :
    /\ e < j
    /\ IsEvent(trace[e], "end")
    /\ trace[e].u.kind = "chunk" /\ trace[e].u.sess < trace[i].u.sess
    /\ j \in ChunkSubmits /\ trace[j].u.idx = 1

----------------------------------------------------------------------------
(* C27 *)

\* C27: the step that delivers a start, end or error event of a preview
\* utterance invokes no consumer callback, submits nothing and leaves the
\* chunk queue as it is.
C27_PreviewIsIndependent ==
  [][(/\ Len(trace') > Len(trace)
      /\ trace'[Len(trace) + 1].k = "event"
      /\ trace'[Len(trace) + 1].n \in {"start", "end", "error"}
      /\ trace'[Len(trace) + 1].u.kind = "preview")
     => (/\ Len(trace') = Len(trace) + 1
         /\ UNCHANGED utteranceQueue)]_vars

----------------------------------------------------------------------------
(* C28 *)

\* C28: in the hook, the step that delivers an end, error, pause or boundary
\* event of an utterance older than the one the engine now holds leaves
\* isPlaying, isPaused and charIndex as they are.
C28_HookIgnoresStaleEvents ==
  [][\A e \in inbox :
       (/\ e \notin inbox'
        /\ calls' = calls
        /\ e.ev \in {"end", "error", "pause", "boundary"}
        /\ e.u.kind = "hook"
        /\ synthQueue # <<>>
        /\ e.u.sess < Head(synthQueue).sess)
       => UNCHANGED <<isPlaying, isPaused, charIndex>>]_vars

----------------------------------------------------------------------------
(* C30 *)

\* C30: in the hook, isPaused is never true while isPlaying is false.
C30_PausedImpliesPlaying == isPaused => isPlaying

----------------------------------------------------------------------------
(* C29 *)

\* The hook holds the engine's list of voices and a selectedVoice out of it
VoicesHeld ==
  /\ voices = synthVoices
  /\ selectedVoice # NoVoice
  /\ \E i \in DOMAIN voices : voices[i] = selectedVoice

\* C29: once the engine's list of voices is non-empty, be it before the
\* hook's effect first runs or later with a 'voiceschanged' event, the hook
\* eventually holds that list and a non-null selectedVoice that is in it.
C29_VoicesEventuallyHeld == (Len(synthVoices) > 0) ~> VoicesHeld

\* C29 witness: the engine has loaded three voices, the hook holds them, and
\* no effect and no event is pending
C29_Witness ==
  /\ VoicesHeld
  /\ Len(voices) = 3
  /\ ~effectPending
  /\ voicesChangedEvents = 0

----------------------------------------------------------------------------
(* C31 *)

\* C31: whenever the hook reports Playing (isPlaying and not isPaused) the
\* engine holds an utterance, being spoken or waiting.
C31_PlayingHasUtterance ==
  (isPlaying /\ ~isPaused) => synthQueue # <<>>

----------------------------------------------------------------------------
(* C32 *)

\* The consumer registered its callbacks before anything else happened
RegisteredFirst ==
  trace # <<>> /\ IsCall(trace[1], "setCallbacks") /\ trace[1].cbs["onStart"] # Null

\* C32: every invocation of the consumer's onEnd has an invocation of onStart
\* before it, with no other onEnd between the two.
C32_OnEndFollowsOnStart ==
  RegisteredFirst =>
    \A j \in 1..Len(trace) :
      IsCb(trace[j], "onEnd") =>
        \E i \in 1..(j - 1) :
          /\ IsCb(trace[i], "onStart")
          /\ \A m \in (i + 1)..(j - 1) : ~IsCb(trace[m], "onEnd")

----------------------------------------------------------------------------
(* C33 *)

\* C33: whenever the hook is Idle (isPlaying false) its charIndex is 0.
C33_IdleHasNoProgress ==
  ~isPlaying => charIndex = 0

----------------------------------------------------------------------------
(* C34 *)

\* C34: stop() called while the engine is neither speaking nor paused changes
\* nothing: the engine gets no cancel, the chunk queue and the hook's state
\* stay as they are and onEnd is not invoked.
C34_StopWhileSilentIsNoOp ==
  [][(calls' = calls + 1 /\ lastCall'.n = "stop"
      /\ ~SynthSpeaking(State) /\ ~synthPaused)
     => NoOpCall]_vars

\* C34 witness: stop() was called on a working engine after a session had
\* ended by itself, with onEnd registered
C34_Witness ==
  /\ lastCall.n = "stop" /\ lastCall.st = "Idle"
  /\ synthSupported /\ ~synthPaused /\ synthQueue = <<>>
  /\ callbacks["onEnd"] # Null
  /\ \E i \in 1..Len(trace) : IsEvent(trace[i], "end")
  /\ IsCall(trace[Len(trace)], "stop")

----------------------------------------------------------------------------
(* C35 *)

\* A step of setSelectedVoice, or of the effect that the new selectedVoice
\* makes React run
VoiceChangeStep ==
  selectedVoice' # selectedVoice \/ (effectPending /\ ~effectPending')

\* C35: changing the selected voice while an utterance is being spoken or is
\* paused does not disturb it: the engine keeps the utterance, and isPlaying,
\* isPaused and charIndex stay as they are.
C35_VoiceChangeKeepsSpeech ==
  [][(VoiceChangeStep /\ synthQueue # <<>>)
     => UNCHANGED <<synthQueue, synthPhase, isPlaying, isPaused, charIndex>>]_vars

----------------------------------------------------------------------------
(* C36 *)

RECURSIVE EveryIterationCuts(_, _)
\* TRUE iff every iteration of chunkText's loop, entered with currentText,
\* breaks at a position >= 1 and leaves a text shorter than it found
EveryIterationCuts(currentText, maxChunkLength) ==
  IF Len(currentText) <= maxChunkLength THEN TRUE
  ELSE CHOOSE r \in
         {IF breakPoint < 1 THEN FALSE
          ELSE LET rest == Trim(SubstringFrom(currentText, breakPoint))
               IN  Len(rest) < Len(currentText)
                     /\ EveryIterationCuts(rest, maxChunkLength)
            : breakPoint \in {BreakPoint(currentText, maxChunkLength)}} : TRUE

\* C36: for every text and every maxLength >= 1, the call of chunkText comes
\* back, and every iteration of its loop takes at least one character off the
\* text that is left.
C36_ChunkTextTerminates ==
  chunkOut # NotReturned =>
    /\ chunkOut.done
    /\ EveryIterationCuts(sanitizeText(chunkIn.text), chunkIn.max)

\* C36 witness: chunkText has returned after an iteration that broke after a
\* sentence, one that cut at maxChunkLength, and the last one
C36_Witness ==
  /\ chunkOut # NotReturned
  /\ chunkOut.done
  /\ chunkIn = [text |-> <<"a", ".", " ", "a", "a", "a", "a">>, max |-> 3]
  /\ chunkOut.chunks = << <<"a", ".">>, <<"a", "a", "a">>, <<"a">> >>

----------------------------------------------------------------------------
(* C37 *)

\* C37: the progress shown is within [0, 100] for every charIndex and every
\* text length: the width of the bar and the percentage printed; it is 0 for
\* the empty text, also when charIndex is beyond the end of the text.
C37_ProgressWithinRange ==
  progressOut.rendered =>
    /\ 0 <= progressOut.width.num
    /\ progressOut.width.num <= 100 * progressOut.width.den
    /\ progressOut.label \in 0..100
    /\ Len(progressIn.textToSpeak) = 0 =>
         (progressOut.width.num = 0 /\ progressOut.label = 0)

\* C37 witness: the bar is rendered with a charIndex beyond the end of a text
\* that is not empty, and shows 100
C37_Witness ==
  /\ progressOut.rendered
  /\ Len(progressIn.textToSpeak) > 0
  /\ progressIn.charIndex > Len(progressIn.textToSpeak)
  /\ progressOut.label = 100

----------------------------------------------------------------------------
(* C38 *)

\* C38: while the session is Idle (after stop(), after an engine error, after
\* the last chunk has been spoken) the chunk queue is empty and
\* getCurrentUtterance() returns null.
C38_IdleSessionIsCleared ==
  ServiceStatus(State) = "Idle" =>
    (utteranceQueue = <<>> /\ currentUtterance = NoU)

====
